---- MODULE Spec2Model ----
(***************************************************************************)
(* Model of pkg/middleware/request_tracing.go: the RequestTracing macaron  *)
(* handler, the route-operation-name store kept in the request context,    *)
(* and the tracer backend that records the spans.                          *)
(*                                                                         *)
(* Go strings are TLA+ strings; fmt.Sprintf and strconv.Itoa are computed. *)
(* A context.Context is a pointer into a heap of immutable valueCtx nodes  *)
(* (parent, key, val).  A pointer is the pair <<r, n>>: the n-th node made  *)
(* on the execution path of request r; spans are addressed the same way.   *)
(*                                                                         *)
(* The module also models the configuration check of AzureMonitorDatasource *)
(* (azure_monitor_datasource.ts): validateDatasource, getSubscriptions and  *)
(* testDatasource with the backend requests they issue through getResource. *)
(***************************************************************************)
EXTENDS Integers, Sequences, FiniteSets, TLC

\* Number of requests the server handles concurrently.
NReq == 2
\* Context derivations the downstream handlers of one request perform.
MaxDerive == 2
\* The same, when several requests are in flight at once.
ConcDerive == 1

ReqIds == 1 .. NReq

(***************************************************************************)
(* Values                                                                  *)
(***************************************************************************)
\* An interface{} value with its dynamic type.
Nil == [type |-> "nil", str |-> "", id |-> <<0, 0>>]
StringVal(s) == [type |-> "string", str |-> s, id |-> <<0, 0>>]
SpanVal(s) == [type |-> "span", str |-> "", id |-> s]

\* Context keys. routeOperationNameKey is the package-private contextKey{};
\* currentSpanKey is the key under which the tracer stores the active span.
routeOperationNameKey == "middleware.contextKey{}"
currentSpanKey == "trace.currentSpanKey"
otherKey == "other.key"

\* context.Background(), which carries no value, and the absent span.
Background == <<0, 0>>
NoSpan == <<0, 0>>

\* Inbound requests: method, URL path, raw request URI, traceparent header.
Requests ==
  { [Method |-> "GET",  Path |-> "/public/build/app.js",
     RequestURI |-> "/public/build/app.js", traceparent |-> ""],
    [Method |-> "GET",  Path |-> "/robots.txt",
     RequestURI |-> "/robots.txt", traceparent |-> ""],
    [Method |-> "GET",  Path |-> "/api/org/1",
     RequestURI |-> "/api/org/1?full=1", traceparent |-> "00-ab-cd-01"],
    [Method |-> "POST", Path |-> "/api/org/1",
     RequestURI |-> "/api/org/1", traceparent |-> ""] }

\* Names the routing layer registers with ProvideRouteOperationName.
RouteNames == {"/api/org/:id", ""}

\* Status codes a handler writes; 0 is what the writer reports before any write.
Statuses == {200, 399, 400, 404}
Unwritten == 0

\* The traffic of a server that handles one request at a time.
SerialTraffic ==
  [clients |-> {1}, requests |-> Requests, names |-> RouteNames,
   statuses |-> Statuses, derive |-> MaxDerive]

\* The traffic of a server with every request in flight at once.
ConcurrentTraffic ==
  [clients |-> ReqIds,
   requests |-> {q \in Requests : q.Path # "/robots.txt"},
   names |-> {"/api/org/:id"}, statuses |-> {404}, derive |-> ConcDerive]

(***************************************************************************)
(* Pure functions                                                          *)
(***************************************************************************)
\* strings.HasPrefix
HasPrefix(s, prefix) ==
  /\ Len(s) >= Len(prefix)
  /\ SubSeq(s, 1, Len(prefix)) = prefix

Digit(d) == <<"0", "1", "2", "3", "4", "5", "6", "7", "8", "9">>[d + 1]

RECURSIVE Itoa(_)
\* strconv.Itoa
Itoa(n) ==
  IF n < 0 THEN "-" \o Itoa(0 - n)
  ELSE IF n < 10 THEN Digit(n)
  ELSE Itoa(n \div 10) \o Digit(n % 10)

\* fmt.Sprintf("HTTP %s %s", method, x)
SpanName(method, x) == "HTTP " \o method \o " " \o x

\* fmt.Sprintf("error with HTTP status code %s", strconv.Itoa(status))
StatusMessage(status) == "error with HTTP status code " \o Itoa(status)

\* The status from which a response counts as an error.
ErrorStatusMin == 400

\* An error test that leaves the boundary status out.
IsErrorStatusStrict(status) == status > ErrorStatusMin

IsErrorStatus(status) == status >= ErrorStatusMin

\* A bypass test that compares the whole path with the static prefix.
BypassedExact(path) == path = "/public/" \/ path = "robots.txt"

\* The bypass test of RequestTracing.
Bypassed(path) == HasPrefix(path, "/public/") \/ path = "robots.txt"

(***************************************************************************)
(* State                                                                   *)
(***************************************************************************)
VARIABLES
  pc,        \* pc[r]: "idle", "chain" (inside c.Next()), "done", "panicked"
  req,       \* req[r]: the *http.Request the handler received
  cReq,      \* cReq[r]: c.Req, the request the macaron context points to
  span,      \* span[r]: the handler's local span, NoSpan when none
  rwStatus,  \* rwStatus[r]: what rw.Status() reports
  ctxs,      \* heap of context nodes
  spans,     \* the spans the tracer backend has seen
  nextCalls, \* nextCalls[r]: number of times c.Next() was invoked
  provided,  \* provided[r]: names stored by ProvideRouteOperationName, in order
  derives,   \* derives[r]: contexts derived by the downstream handlers
  written,   \* written[r]: statuses the handlers wrote, in order
  traffic,   \* the requests, names and statuses the server is exposed to
  az         \* the AzureMonitorDatasource instance and the call made on it

vars == <<pc, req, cReq, span, rwStatus, ctxs, spans, nextCalls, provided,
          derives, written, traffic, az>>

NoRequest == [Method |-> "", Path |-> "", RequestURI |-> "", traceparent |-> "",
              ctx |-> Background]

Start ==
  /\ pc = [r \in ReqIds |-> "idle"]
  /\ req = [r \in ReqIds |-> NoRequest]
  /\ cReq = [r \in ReqIds |-> NoRequest]
  /\ span = [r \in ReqIds |-> NoSpan]
  /\ rwStatus = [r \in ReqIds |-> Unwritten]
  /\ ctxs = <<>>
  /\ spans = <<>>
  /\ nextCalls = [r \in ReqIds |-> 0]
  /\ provided = [r \in ReqIds |-> <<>>]
  /\ derives = [r \in ReqIds |-> 0]
  /\ written = [r \in ReqIds |-> <<>>]

\* JavaScript values of a configuration field: undefined or a string.
JsUndefined == [type |-> "undefined", str |-> ""]
JsString(t) == [type |-> "string", str |-> t]

\* instanceSettings: the auth type getAuthType reports and the jsonData fields.
Settings ==
  [authType : {"clientsecret", "msi"},
   tenantId : {JsUndefined, JsString(""), JsString("tenant-1")},
   clientId : {JsUndefined, JsString(""), JsString("client-1")}]

\* No value: undefined, the value of a pending promise.
NoValue == [kind |-> "undefined", status |-> "", message |-> "", title |-> "",
            items |-> <<>>]

Pending == [state |-> "pending", value |-> NoValue]

\* new AzureMonitorDatasource(instanceSettings), before any method is called.
NewDatasource(settings) ==
  [settings |-> settings, call |-> "none", pc |-> "idle", requests |-> <<>>,
   promise |-> Pending]

\* A datasource instance on which no method is called.
UnusedDatasource ==
  NewDatasource([authType |-> "msi", tenantId |-> JsUndefined,
                 clientId |-> JsUndefined])

Init == Start /\ traffic = SerialTraffic /\ az = UnusedDatasource

InitConc == Start /\ traffic = ConcurrentTraffic /\ az = UnusedDatasource

InitAzure ==
  /\ Start
  /\ traffic = SerialTraffic
  /\ az \in {NewDatasource(settings) : settings \in Settings}

(***************************************************************************)
(* Contexts                                                                *)
(***************************************************************************)
\* The address of the next node or span made on the path of request r.
New(heap, r) == <<r, Cardinality({id \in DOMAIN heap : id[1] = r}) + 1>>

\* context.WithValue(parent, key, val): a new node; no other node changes.
WithValue(heap, r, parent, key, val) ==
  (New(heap, r) :> [parent |-> parent, key |-> key, val |-> val]) @@ heap

\* A lookup that inspects only the innermost node.
ValueShallow(heap, ctx, key) ==
  IF ctx = Background THEN Nil
  ELSE IF heap[ctx].key = key THEN heap[ctx].val
  ELSE Nil

RECURSIVE Value(_, _, _)
\* ctx.Value(key): the nearest node on the parent chain holding key, else nil.
Value(heap, ctx, key) ==
  IF ctx = Background THEN Nil
  ELSE IF heap[ctx].key = key THEN heap[ctx].val
  ELSE Value(heap, heap[ctx].parent, key)

\* req.WithContext(ctx): a shallow copy of the request with the new context.
WithContext(rq, ctx) == [rq EXCEPT !.ctx = ctx]

\* RouteOperationNameFromContext(ctx) -> (string, bool)
RouteOperationNameFromContext(heap, ctx) ==
  LET val == Value(heap, ctx, routeOperationNameKey) IN
  IF val # Nil
  THEN IF val.type = "string" THEN <<val.str, TRUE>> ELSE <<"", FALSE>>
  ELSE <<"", FALSE>>

\* trace.SpanFromContext(ctx): the span a context carries, NoSpan when none.
SpanFromContext(heap, ctx) ==
  LET val == Value(heap, ctx, currentSpanKey) IN
  IF val.type = "span" THEN val.id ELSE NoSpan

(***************************************************************************)
(* Spans                                                                   *)
(***************************************************************************)
\* propagation Extract + LinkFromContext: the upstream trace the span links to.
Extract(rq) == rq.traceparent

Op(name, r) == [op |-> name, by |-> r]

\* Tracer.Start: a new span, recording, named, linked, with no attribute.
StartSpan(name, link, r) ==
  [name |-> name, link |-> link, attrs |-> <<>>,
   status |-> [code |-> "Unset", msg |-> ""],
   ended |-> FALSE, ops |-> <<Op("Start", r)>>]

SetName(s, name, r) ==
  [s EXCEPT !.name = name, !.ops = Append(@, Op("SetName", r))]

SetAttributes(s, key, val, r) ==
  [s EXCEPT !.attrs = (key :> val) @@ @, !.ops = Append(@, Op("SetAttributes", r))]

SetStatus(s, code, msg, r) ==
  [s EXCEPT !.status = [code |-> code, msg |-> msg],
            !.ops = Append(@, Op("SetStatus", r))]

End(s, r) == [s EXCEPT !.ended = TRUE, !.ops = Append(@, Op("End", r))]

IntVal(n) == [type |-> "int", int |-> n, str |-> ""]

\* Attribute keys of the span.
AttrStatus == "HTTP response status code"
AttrURI == "HTTP request URI"
AttrMethod == "HTTP request method"

(***************************************************************************)
(* RequestTracing                                                          *)
(***************************************************************************)
\* A handler that runs the chain a second time.
CallNextTwice(n) == n + 2

\* c.Next(): one more invocation of the remaining handler chain.
CallNext(n) == n + 1

\* The context of the request as it was before the chain ran: req.Context().
ContextBeforeChain(r) == req[r].ctx

\* The context of one macaron context shared by all the requests.
ContextOfShared(r) == cReq[1].ctx

\* The context the handler reads after the chain returned: c.Req.Context().
ContextAfterChain(r) == cReq[r].ctx

\* rw.Status()
Status(r) == rwStatus[r]

\* A rename with the arguments of the format in the wrong order.
RenameSwapped(s, method, lookup, r) ==
  IF lookup[2] THEN SetName(s, SpanName(lookup[1], method), r) ELSE s

\* Lines 64 and 66: the span is renamed when the name exists.
Rename(s, method, lookup, r) ==
  IF lookup[2] THEN SetName(s, SpanName(method, lookup[1]), r) ELSE s

\* Lines 69-76: the three attributes and the error status.
Annotate(s, rq, status, r) ==
  LET s1 == SetAttributes(s, AttrStatus, IntVal(status), r)
      s2 == SetAttributes(s1, AttrURI, StringVal(rq.RequestURI), r)
      s3 == SetAttributes(s2, AttrMethod, StringVal(rq.Method), r)
  IN IF IsErrorStatus(status)
     THEN SetStatus(s3, "Error", StatusMessage(status), r)
     ELSE s3

\* A deferred End registered whether or not the name exists.
DeferredAlways(s, lookup, r) == End(s, r)

\* defer span.End(), registered only when the name exists, run on return.
Deferred(s, lookup, r) == IF lookup[2] THEN End(s, r) ELSE s

\* A post-processing that ends the span at line 65 instead of deferring it.
PostProcessEndNow(s, rq, lookup, status, r) ==
  Annotate(Deferred(Rename(s, rq.Method, lookup, r), lookup, r), rq, status, r)

\* Lines 64-77 in the order they take effect: the rename, the attributes and
\* the status, and on return the deferred End.
PostProcess(s, rq, lookup, status, r) ==
  Deferred(Annotate(Rename(s, rq.Method, lookup, r), rq, status, r), lookup, r)

\* An unwinding that runs a deferred End registered before c.Next().
UnwindEnd(s, r) == End(s, r)

\* What a panic of the chain runs of RequestTracing while it unwinds: no
\* deferred call is registered before line 65 and nothing recovers.
Unwind(s, r) == s

\* Lines 46-60: the bypass test, span start, context replacement, c.Next().
RequestTracingEnter(r) ==
  /\ pc[r] = "idle"
  /\ r \in traffic.clients
  /\ \E rq \in traffic.requests :
       LET in == [Method |-> rq.Method, Path |-> rq.Path,
                  RequestURI |-> rq.RequestURI, traceparent |-> rq.traceparent,
                  ctx |-> Background]
       IN /\ req' = [req EXCEPT ![r] = in]
          /\ IF Bypassed(in.Path)
             THEN /\ cReq' = [cReq EXCEPT ![r] = in]
                  /\ UNCHANGED <<span, ctxs, spans>>
             ELSE /\ spans' = (New(spans, r) :>
                         StartSpan(SpanName(in.Method, in.Path), Extract(in), r))
                         @@ spans
                  /\ span' = [span EXCEPT ![r] = New(spans, r)]
                  /\ ctxs' = WithValue(ctxs, r, in.ctx, currentSpanKey,
                                       SpanVal(New(spans, r)))
                  /\ cReq' = [cReq EXCEPT ![r] = WithContext(in, New(ctxs, r))]
  /\ nextCalls' = [nextCalls EXCEPT ![r] = CallNext(@)]
  /\ pc' = [pc EXCEPT ![r] = "chain"]
  /\ UNCHANGED <<rwStatus, provided, derives, written, traffic, az>>

\* Lines 49 and 62-77: c.Next() has returned; the post-processing.
RequestTracingReturn(r) ==
  /\ pc[r] = "chain"
  /\ IF span[r] = NoSpan
     THEN UNCHANGED spans
     ELSE LET lookup == RouteOperationNameFromContext(ctxs, ContextAfterChain(r))
          IN spans' = [spans EXCEPT ![span[r]] =
                         PostProcess(@, req[r], lookup, Status(r), r)]
  /\ pc' = [pc EXCEPT ![r] = "done"]
  /\ UNCHANGED <<req, cReq, span, rwStatus, ctxs, nextCalls, provided, derives,
                 written, traffic, az>>

(***************************************************************************)
(* The remaining handler chain                                             *)
(***************************************************************************)
\* A derivation that starts from an empty context.
ContextFresh(r) == Background

\* The context ProvideRouteOperationName derives from: c.Req.Context().
ContextToDerive(r) == cReq[r].ctx

\* ProvideRouteOperationName(name), run as a handler of request r.
ProvideRouteOperationName(r, name) ==
  /\ pc[r] = "chain"
  /\ derives[r] < traffic.derive
  /\ ctxs' = WithValue(ctxs, r, ContextToDerive(r), routeOperationNameKey,
                       StringVal(name))
  /\ cReq' = [cReq EXCEPT ![r] = WithContext(@, New(ctxs, r))]
  /\ provided' = [provided EXCEPT ![r] = Append(@, name)]
  /\ derives' = [derives EXCEPT ![r] = @ + 1]
  /\ UNCHANGED <<pc, req, span, rwStatus, spans, nextCalls, written, traffic, az>>

\* Another middleware derives the request context under a key of its own.
DeriveOther(r) ==
  /\ pc[r] = "chain"
  /\ derives[r] < traffic.derive
  /\ ctxs' = WithValue(ctxs, r, cReq[r].ctx, otherKey, StringVal("v"))
  /\ cReq' = [cReq EXCEPT ![r] = WithContext(@, New(ctxs, r))]
  /\ derives' = [derives EXCEPT ![r] = @ + 1]
  /\ UNCHANGED <<pc, req, span, rwStatus, spans, nextCalls, provided, written,
                 traffic, az>>

\* A handler writes the response header; the writer keeps the first status.
WriteHeader(r, status) ==
  /\ pc[r] = "chain"
  /\ rwStatus[r] = Unwritten
  /\ rwStatus' = [rwStatus EXCEPT ![r] = status]
  /\ written' = [written EXCEPT ![r] = Append(@, status)]
  /\ UNCHANGED <<pc, req, cReq, span, ctxs, spans, nextCalls, provided, derives,
                 traffic, az>>

\* A handler panics: the stack unwinds through RequestTracing, which has no
\* deferred call registered at that point, so none of its code runs.
HandlerPanic(r) ==
  /\ pc[r] = "chain"
  /\ pc' = [pc EXCEPT ![r] = "panicked"]
  /\ IF span[r] = NoSpan
     THEN UNCHANGED spans
     ELSE spans' = [spans EXCEPT ![span[r]] = Unwind(@, r)]
  /\ UNCHANGED <<req, cReq, span, rwStatus, ctxs, nextCalls, provided,
                 derives, written, traffic, az>>

Next ==
  \E r \in ReqIds :
    \/ RequestTracingEnter(r)
    \/ RequestTracingReturn(r)
    \/ \E name \in traffic.names : ProvideRouteOperationName(r, name)
    \/ DeriveOther(r)
    \/ \E status \in traffic.statuses : WriteHeader(r, status)
    \/ HandlerPanic(r)

Spec == Init /\ [][Next]_vars

SpecConc == InitConc /\ [][Next]_vars

TypeOK ==
  /\ \A r \in ReqIds : pc[r] \in {"idle", "chain", "done", "panicked"}
  /\ \A r \in ReqIds : span[r] \in DOMAIN spans \cup {NoSpan}
  /\ \A r \in ReqIds : cReq[r].ctx \in DOMAIN ctxs \cup {Background}

(***************************************************************************)
(* AzureMonitorDatasource                                                  *)
(***************************************************************************)
\* A field check that accepts every string, the empty one included.
isValidConfigFieldAnyString(field) == field.type = "string"

\* isValidConfigField: typeof field === 'string' && field.length > 0
isValidConfigField(field) == field.type = "string" /\ Len(field.str) > 0

\* A DatasourceValidationResult { status, message, title? }.
ValidationResult(status, message, title) ==
  [kind |-> "result", status |-> status, message |-> message, title |-> title,
   items |-> <<>>]

\* validateDatasource: the error of the first missing field, else undefined.
validateDatasource(settings) ==
  IF settings.authType = "clientsecret"
  THEN IF ~isValidConfigField(settings.tenantId)
       THEN ValidationResult("error", "The Tenant Id field is required.", "")
       ELSE IF ~isValidConfigField(settings.clientId)
            THEN ValidationResult("error", "The Client Id field is required.", "")
            ELSE NoValue
  ELSE NoValue

\* JavaScript truthiness of what validateDatasource returns.
Truthy(v) == v.kind # "undefined"

\* isConfigured: !this.validateDatasource()
isConfigured(settings) == ~Truthy(validateDatasource(settings))

\* this.resourcePath with the api-version query both methods request.
SubscriptionsUrl == "azuremonitor/subscriptions" \o "?api-version=2019-03-01"

\* Bodies the backend answers with: the subscriptions it lists.
Responses == {<<>>, <<"sub-1", "sub-2">>}

\* ResponseParser.parseSubscriptions(result), kept as the parse of the body.
ParsedSubscriptions(response) ==
  [kind |-> "subscriptions", status |-> "", message |-> "", title |-> "",
   items |-> response]

\* The empty array getSubscriptions returns when not configured.
EmptyList ==
  [kind |-> "array", status |-> "", message |-> "", title |-> "", items |-> <<>>]

\* Rejections of getResource: statusText and data, where data is undefined,
\* a string, { error: string } or { error: { code, message } }.
Errors ==
  { [statusText |-> "", data |-> "undefined", text |-> "", code |-> "", msg |-> ""],
    [statusText |-> "Bad Gateway", data |-> "string", text |-> "upstream down",
     code |-> "", msg |-> ""],
    [statusText |-> "Unauthorized", data |-> "errorString", text |-> "invalid_client",
     code |-> "", msg |-> ""],
    [statusText |-> "", data |-> "errorObject", text |-> "",
     code |-> "AuthorizationFailed", msg |-> "no access"],
    [statusText |-> "Forbidden", data |-> "errorObject", text |-> "",
     code |-> "AuthorizationFailed", msg |-> "no access"] }

\* The rejection as a promise value.
Rejection(e) ==
  [kind |-> "error", status |-> e.statusText, message |-> e.text \o e.code \o e.msg,
   title |-> "", items |-> <<>>]

\* The message the catch block of testDatasource builds.
CatchMessage(e) ==
  LET head == "Azure Monitor: " \o
                (IF e.statusText # "" THEN e.statusText \o ": " ELSE "")
  IN IF e.data = "errorObject" /\ e.code # "" THEN head \o e.code \o ". " \o e.msg
     ELSE IF e.data = "errorString" /\ e.text # "" THEN head \o e.text
     ELSE IF e.data = "string" /\ e.text # "" THEN head \o e.text
     ELSE head \o "Cannot connect to Azure Monitor REST API."

\* this.getResource(url): one more backend request.
getResource(requests, url) == Append(requests, url)

\* getSubscriptions up to its return: [] when not configured, else the request.
getSubscriptions ==
  /\ az.pc = "idle"
  /\ IF ~isConfigured(az.settings)
     THEN az' = [az EXCEPT !.call = "getSubscriptions", !.pc = "settled",
                          !.promise = [state |-> "resolved", value |-> EmptyList]]
     ELSE az' = [az EXCEPT !.call = "getSubscriptions", !.pc = "awaiting",
                          !.requests = getResource(@, SubscriptionsUrl)]
  /\ UNCHANGED <<pc, req, cReq, span, rwStatus, ctxs, spans, nextCalls, provided,
                 derives, written, traffic>>

\* testDatasource up to its await: the validation error, else the request.
testDatasource ==
  /\ az.pc = "idle"
  /\ LET validationError == validateDatasource(az.settings) IN
     IF Truthy(validationError)
     THEN az' = [az EXCEPT !.call = "testDatasource", !.pc = "settled",
                          !.promise = [state |-> "resolved",
                                       value |-> validationError]]
     ELSE az' = [az EXCEPT !.call = "testDatasource", !.pc = "awaiting",
                          !.requests = getResource(@, SubscriptionsUrl)]
  /\ UNCHANGED <<pc, req, cReq, span, rwStatus, ctxs, spans, nextCalls, provided,
                 derives, written, traffic>>

\* getResource resolves: the .then callback of the method that awaits it.
getResourceResolves(response) ==
  /\ az.pc = "awaiting"
  /\ az' = [az EXCEPT
       !.pc = "settled",
       !.promise =
         [state |-> "resolved",
          value |-> IF az.call = "getSubscriptions"
                    THEN ParsedSubscriptions(response)
                    ELSE ValidationResult("success",
                           "Successfully queried the Azure Monitor service.",
                           "Success")]]
  /\ UNCHANGED <<pc, req, cReq, span, rwStatus, ctxs, spans, nextCalls, provided,
                 derives, written, traffic>>

\* getResource rejects: getSubscriptions rejects with it, testDatasource
\* catches it and resolves to an error result.
getResourceRejects(e) ==
  /\ az.pc = "awaiting"
  /\ az' = [az EXCEPT
       !.pc = "settled",
       !.promise =
         IF az.call = "getSubscriptions"
         THEN [state |-> "rejected", value |-> Rejection(e)]
         ELSE [state |-> "resolved",
               value |-> ValidationResult("error", CatchMessage(e), "")]]
  /\ UNCHANGED <<pc, req, cReq, span, rwStatus, ctxs, spans, nextCalls, provided,
                 derives, written, traffic>>

NextAzure ==
  \/ getSubscriptions
  \/ testDatasource
  \/ \E response \in Responses : getResourceResolves(response)
  \/ \E e \in Errors : getResourceRejects(e)

SpecAzure == InitAzure /\ [][NextAzure]_vars

(***************************************************************************)
(* Properties                                                              *)
(***************************************************************************)
Last(seq) == seq[Len(seq)]

\* The positions <<span, i>> of the span operations named op issued by r.
OpsBy(r, op) ==
  { p \in UNION { {<<id, i>> : i \in 1 .. Len(spans[id].ops)} : id \in DOMAIN spans } :
      /\ spans[p[1]].ops[p[2]].by = r
      /\ spans[p[1]].ops[p[2]].op = op }

OpNames == {"Start", "SetName", "SetAttributes", "SetStatus", "End"}

\* Request r issued no span operation at all.
NoSpanOps(r) == \A op \in OpNames : OpsBy(r, op) = {}

\* Handling of request r is over: the handler returned or a panic unwound it.
Over(r) == pc[r] \in {"done", "panicked"}

Traced(r) == pc[r] # "idle" /\ span[r] # NoSpan

\* C1: every request that is not bypassed has started exactly one span and
\* ended exactly one span once its handling is over, whether the chain set a
\* route operation name, set none, or panicked.
C1_OneStartOneEnd ==
  \A r \in ReqIds :
    (Over(r) /\ ~Bypassed(req[r].Path)) =>
      /\ Cardinality(OpsBy(r, "Start")) = 1
      /\ Cardinality(OpsBy(r, "End")) = 1

\* C2: a request whose path starts with "/public/" starts no span, issues no
\* span operation, and has the remaining chain invoked exactly once.
C2_StaticPrefixBypass ==
  \A r \in ReqIds :
    (pc[r] # "idle" /\ HasPrefix(req[r].Path, "/public/")) =>
      /\ span[r] = NoSpan
      /\ NoSpanOps(r)
      /\ nextCalls[r] = 1

C2_Witness ==
  \E r \in ReqIds :
    /\ pc[r] = "done"
    /\ req[r].Path = "/public/build/app.js"
    /\ nextCalls[r] = 1
    /\ spans = <<>>

\* C3: a request for "/robots.txt" skips tracing: no span is created and no
\* span operation is issued for it.
C3_RobotsBypass ==
  \A r \in ReqIds :
    (pc[r] # "idle" /\ req[r].Path = "/robots.txt") =>
      /\ span[r] = NoSpan
      /\ NoSpanOps(r)

\* C4: when the chain has returned, the name of the span of a traced request
\* with method M and path P is "HTTP M X" if a handler stored the name X (the
\* latest one stored), and the start name "HTTP M P" if none did; a span
\* whose chain never stored a name keeps the start name however it ends.
C4_FinalSpanName ==
  \A r \in ReqIds :
    /\ (pc[r] = "done" /\ span[r] # NoSpan /\ provided[r] # <<>>) =>
         spans[span[r]].name = "HTTP " \o req[r].Method \o " " \o Last(provided[r])
    /\ (Traced(r) /\ provided[r] = <<>>) =>
         spans[span[r]].name = "HTTP " \o req[r].Method \o " " \o req[r].Path

C4_Witness ==
  \E r \in ReqIds :
    /\ pc[r] = "done"
    /\ req[r].Method = "POST"
    /\ provided[r] = <<"/api/org/:id">>
    /\ span[r] # NoSpan
    /\ spans[span[r]].name = "HTTP POST /api/org/:id"

\* The value of a decimal digit character, -1 for any other character.
DigitValue(ch) ==
  IF \E d \in 0 .. 9 : Digit(d) = ch THEN CHOOSE d \in 0 .. 9 : Digit(d) = ch ELSE 0 - 1

\* The number a string of three decimal digits denotes, -1 when it is none.
Decimal3(t) ==
  IF Len(t) = 3 /\ \A i \in 1 .. 3 : DigitValue(SubSeq(t, i, i)) >= 0
  THEN 100 * DigitValue(SubSeq(t, 1, 1)) + 10 * DigitValue(SubSeq(t, 2, 2))
       + DigitValue(SubSeq(t, 3, 3))
  ELSE 0 - 1

\* The message names the three-digit status code.
MentionsStatus(msg, status) ==
  \E i \in 1 .. (Len(msg) - 2) : Decimal3(SubSeq(msg, i, i + 2)) = status

\* C5: after post-processing, the status-code attribute of the span equals
\* the status the response writer reports; the span status is Error, with a
\* message containing the code, exactly when the code is >= 400; below 400
\* SetStatus is never called.
C5_StatusRecorded ==
  \A r \in ReqIds :
    (pc[r] = "done" /\ span[r] # NoSpan) =>
      LET s == spans[span[r]] IN
      /\ AttrStatus \in DOMAIN s.attrs
      /\ s.attrs[AttrStatus] = IntVal(rwStatus[r])
      /\ (s.status.code = "Error") <=> (rwStatus[r] >= 400)
      /\ (rwStatus[r] >= 400) => MentionsStatus(s.status.msg, rwStatus[r])
      /\ (rwStatus[r] < 400) => OpsBy(r, "SetStatus") = {}

C5_Witness ==
  \E r \in ReqIds :
    /\ pc[r] = "done"
    /\ span[r] # NoSpan
    /\ rwStatus[r] = 400
    /\ spans[span[r]].status.code = "Error"
    /\ spans[span[r]].attrs[AttrStatus].int = 400

\* C6: for every request, bypassed or traced, the remaining chain has been
\* invoked exactly once as soon as the handler has entered it, and the status
\* the response writer reports is the one the chain wrote (none if it wrote
\* none): the tracer never writes the response.
C6_ChainOnceStatusUntouched ==
  \A r \in ReqIds :
    /\ nextCalls[r] = IF pc[r] = "idle" THEN 0 ELSE 1
    /\ rwStatus[r] = IF written[r] = <<>> THEN Unwritten ELSE written[r][1]

C6_Witness ==
  \E r \in ReqIds :
    /\ pc[r] = "done"
    /\ span[r] # NoSpan
    /\ "End" \in {spans[span[r]].ops[i].op : i \in 1 .. Len(spans[span[r]].ops)}
    /\ written[r] = <<404>>
    /\ rwStatus[r] = 404
    /\ nextCalls[r] = 1

\* C7: RouteOperationNameFromContext returns ("", false) for the context the
\* request arrived with and for every request context on which no name was
\* stored, and (name, true) for the request context once
\* ProvideRouteOperationName(name) has stored the name, also after further
\* derivations under other keys.
C7_LookupFindsStoredName ==
  \A r \in ReqIds :
    /\ RouteOperationNameFromContext(ctxs, req[r].ctx) = <<"", FALSE>>
    /\ RouteOperationNameFromContext(ctxs, cReq[r].ctx) =
         IF provided[r] = <<>> THEN <<"", FALSE>> ELSE <<Last(provided[r]), TRUE>>

C7_Witness ==
  \E r \in ReqIds :
    /\ provided[r] = <<"/api/org/:id">>
    /\ ctxs[cReq[r].ctx].key = otherKey
    /\ RouteOperationNameFromContext(ctxs, cReq[r].ctx) = <<"/api/org/:id", TRUE>>

\* C8: storing the route operation name allocates a new context and changes
\* no existing one; the name the original context yields is unchanged, every
\* other key yields through the new context what it yielded before, and the
\* span RequestTracing placed in the context is still found in the request
\* context.
C8_DeriveKeepsContext ==
  [][ /\ \A id \in DOMAIN ctxs : id \in DOMAIN ctxs' /\ ctxs'[id] = ctxs[id]
      /\ \A r \in ReqIds :
           provided'[r] # provided[r] =>
             /\ cReq'[r].ctx \notin DOMAIN ctxs
             /\ RouteOperationNameFromContext(ctxs', cReq[r].ctx) =
                  RouteOperationNameFromContext(ctxs, cReq[r].ctx)
             /\ \A k \in {currentSpanKey, otherKey} :
                  Value(ctxs', cReq'[r].ctx, k) = Value(ctxs, cReq[r].ctx, k)
             /\ SpanFromContext(ctxs', cReq'[r].ctx) = span[r] ]_vars

C8_Witness ==
  \E r \in ReqIds :
    /\ provided[r] # <<>>
    /\ span[r] # NoSpan
    /\ ctxs[cReq[r].ctx].key = routeOperationNameKey
    /\ SpanFromContext(ctxs, cReq[r].ctx) = span[r]
    /\ Value(ctxs, cReq[r].ctx, otherKey) # Nil

\* The request that started span id.
Owner(id) == spans[id].ops[1].by

\* C9: under any interleaving, every operation on a span is issued by the
\* request that started it, two requests never hold the same span, and the
\* name, attributes and status of a span come from the method, path, URI,
\* status and route operation names of its own request.
C9_SpanOwnedByRequest ==
  /\ \A r1, r2 \in ReqIds : (r1 # r2 /\ span[r1] # NoSpan) => span[r1] # span[r2]
  /\ \A id \in DOMAIN spans :
       LET s == spans[id]
           o == Owner(id)
       IN /\ span[o] = id
          /\ \A i \in 1 .. Len(s.ops) : s.ops[i].by = o
          /\ s.name \in {SpanName(req[o].Method, req[o].Path)}
                 \cup {SpanName(req[o].Method, provided[o][i]) :
                         i \in 1 .. Len(provided[o])}
          /\ AttrStatus \in DOMAIN s.attrs => s.attrs[AttrStatus] = IntVal(rwStatus[o])
          /\ AttrURI \in DOMAIN s.attrs => s.attrs[AttrURI] = StringVal(req[o].RequestURI)
          /\ AttrMethod \in DOMAIN s.attrs => s.attrs[AttrMethod] = StringVal(req[o].Method)
          /\ s.status.code = "Error" => MentionsStatus(s.status.msg, rwStatus[o])

C9_Witness ==
  \E r1, r2 \in ReqIds :
    /\ pc[r1] = "done" /\ pc[r2] = "done"
    /\ span[r1] # NoSpan /\ span[r2] # NoSpan /\ span[r1] # span[r2]
    /\ req[r1].Method = "GET" /\ req[r2].Method = "POST"
    /\ provided[r1] # <<>> /\ provided[r2] = <<>>
    /\ rwStatus[r1] = 404 /\ rwStatus[r2] = Unwritten
    /\ spans[span[r1]].ended /\ ~spans[span[r2]].ended

\* C10: while the chain of a traced request runs, the request context it sees
\* holds the span the handler started; and after the chain has returned the
\* span was renamed exactly when a downstream handler stored a name in the
\* request context during the chain.
C10_ChainSeesSpanTracerSeesName ==
  \A r \in ReqIds :
    /\ (pc[r] = "chain" /\ ~Bypassed(req[r].Path)) =>
         /\ span[r] # NoSpan
         /\ cReq[r].ctx # req[r].ctx
         /\ SpanFromContext(ctxs, cReq[r].ctx) = span[r]
    /\ (pc[r] = "done" /\ span[r] # NoSpan) =>
         /\ (OpsBy(r, "SetName") # {}) <=> (provided[r] # <<>>)
         /\ provided[r] # <<>> =>
              RouteOperationNameFromContext(ctxs, cReq[r].ctx)[1] = Last(provided[r])

C10_Witness ==
  \E r \in ReqIds :
    /\ pc[r] = "done"
    /\ span[r] # NoSpan
    /\ provided[r] = <<"">>
    /\ RouteOperationNameFromContext(ctxs, req[r].ctx) = <<"", FALSE>>
    /\ Cardinality(OpsBy(r, "SetName")) = 1

\* The names of the operations issued on span s, in order.
OpSeq(s) == [i \in 1 .. Len(s.ops) |-> s.ops[i].op]

\* C11: when the chain returns and the request context yields no route
\* operation name, the span is neither renamed nor ended, but it carries the
\* status-code, URI and method attributes and, for a status >= 400, the
\* error status.
C11_UnnamedSpanAnnotatedNotEnded ==
  \A r \in ReqIds :
    (/\ pc[r] = "done"
     /\ span[r] # NoSpan
     /\ ~RouteOperationNameFromContext(ctxs, cReq[r].ctx)[2]) =>
      LET s == spans[span[r]] IN
      /\ OpSeq(s) = IF rwStatus[r] >= 400
                    THEN <<"Start", "SetAttributes", "SetAttributes",
                           "SetAttributes", "SetStatus">>
                    ELSE <<"Start", "SetAttributes", "SetAttributes",
                           "SetAttributes">>
      /\ ~s.ended
      /\ s.name = "HTTP " \o req[r].Method \o " " \o req[r].Path
      /\ DOMAIN s.attrs = {AttrStatus, AttrURI, AttrMethod}
      /\ s.attrs[AttrStatus].int = rwStatus[r]
      /\ s.attrs[AttrURI].str = req[r].RequestURI
      /\ s.attrs[AttrMethod].str = req[r].Method
      /\ s.status.code = IF rwStatus[r] >= 400 THEN "Error" ELSE "Unset"

C11_Witness ==
  \E r \in ReqIds :
    /\ pc[r] = "done"
    /\ span[r] # NoSpan
    /\ provided[r] = <<>>
    /\ derives[r] > 0
    /\ rwStatus[r] = 404
    /\ req[r].RequestURI = "/api/org/1?full=1"
    /\ ~spans[span[r]].ended
    /\ spans[span[r]].status.code = "Error"

\* C12: a panic of the handler chain is not caught by RequestTracing: the
\* request stays panicked, and no rename, attribute write, status or End is
\* ever issued for it, so its span is as Start left it.
C12_PanicSkipsPostProcessing ==
  [][ \A r \in ReqIds :
        /\ pc[r] = "panicked" => pc'[r] = "panicked"
        /\ pc'[r] = "panicked" =>
             /\ \A op \in OpNames \ {"Start"} : OpsBy(r, op)' = {}
             /\ span[r] # NoSpan =>
                  /\ OpSeq(spans'[span[r]]) = <<"Start">>
                  /\ spans'[span[r]].attrs = <<>>
                  /\ ~spans'[span[r]].ended
                  /\ spans'[span[r]].status.code = "Unset"
                  /\ spans'[span[r]].name =
                       "HTTP " \o req[r].Method \o " " \o req[r].Path ]_vars

C12_Witness ==
  \E r \in ReqIds :
    /\ pc[r] = "panicked"
    /\ span[r] # NoSpan
    /\ provided[r] # <<>>
    /\ rwStatus[r] = 400
    /\ OpSeq(spans[span[r]]) = <<"Start">>

\* C13: the operations on a span come in a fixed order: Start is the first
\* and only Start and precedes the chain, nothing else is issued while the
\* chain runs, a rename precedes the attribute writes, the status follows
\* them, and End, when issued, is issued once and is the last operation.
C13_SpanOperationOrder ==
  /\ \A r \in ReqIds :
       (pc[r] = "chain" /\ span[r] # NoSpan) => OpSeq(spans[span[r]]) = <<"Start">>
  /\ \A r \in ReqIds : pc[r] = "idle" => NoSpanOps(r)
  /\ \A id \in DOMAIN spans :
       LET o == OpSeq(spans[id]) IN
       /\ o[1] = "Start"
       /\ \A i \in 2 .. Len(o) : o[i] # "Start"
       /\ \A i \in 1 .. Len(o) : o[i] = "End" => i = Len(o)
       /\ \A i \in 1 .. Len(o) : o[i] = "SetName" => i = 2
       /\ \A i, j \in 1 .. Len(o) :
            (o[i] = "SetStatus" /\ o[j] = "SetAttributes") => j < i
       /\ spans[id].ended <=> (o[Len(o)] = "End")

C13_Witness ==
  \E r \in ReqIds :
    /\ pc[r] = "done"
    /\ span[r] # NoSpan
    /\ OpSeq(spans[span[r]]) =
         <<"Start", "SetName", "SetAttributes", "SetAttributes", "SetAttributes",
           "SetStatus", "End">>

\* The field is missing or empty.
MissingOrEmpty(field) == field \in {JsUndefined, JsString("")}

\* The configuration the claim calls invalid.
SecretIncomplete(settings) ==
  /\ settings.authType = "clientsecret"
  /\ MissingOrEmpty(settings.tenantId) \/ MissingOrEmpty(settings.clientId)

\* C14: with auth type 'clientsecret' and tenantId or clientId missing or
\* empty, a call issues no backend request: getSubscriptions resolves to an
\* empty list and testDatasource resolves to a result with status 'error';
\* with any other configuration each of them calls getResource exactly once.
C14_InvalidConfigIssuesNoRequest ==
  az.call # "none" =>
    IF SecretIncomplete(az.settings)
    THEN /\ az.requests = <<>>
         /\ az.promise.state = "resolved"
         /\ az.call = "getSubscriptions" =>
              az.promise.value.kind = "array" /\ az.promise.value.items = <<>>
         /\ az.call = "testDatasource" =>
              az.promise.value.kind = "result" /\ az.promise.value.status = "error"
    ELSE /\ Len(az.requests) = 1
         /\ az.requests[1] = "azuremonitor/subscriptions?api-version=2019-03-01"

C14_Witness ==
  /\ az.call = "testDatasource"
  /\ az.settings.authType = "clientsecret"
  /\ az.settings.tenantId = JsString("tenant-1")
  /\ az.settings.clientId = JsString("")
  /\ az.requests = <<>>
  /\ az.promise.state = "resolved"
  /\ az.promise.value.message = "The Client Id field is required."

====
